---- MODULE Spec2Model ----
(***************************************************************************)
(* Download orchestration of the duckTracker desktop application:          *)
(*   ServerManager   (electron-app/src/server/ServerManager.ts)            *)
(*   DownloadManager (electron-app/src/server/DownloadManager.ts)          *)
(*   ElectronApp     (electron-app/src/main/main.ts, event wiring)         *)
(* and, as a specification of its own, the standalone server               *)
(*   server.ts       (server/src/server.ts).                               *)
(*                                                                         *)
(* The node event loop runs one callback at a time.  A handler is one      *)
(* action up to its first await on real I/O; the code after that await is  *)
(* a second action.  EventEmitter.emit calls its listeners synchronously   *)
(* and the DownloadManager methods contain no await on I/O (better-sqlite3 *)
(* is synchronous), so the store update of a listener belongs to the       *)
(* action that emits the event.                                            *)
(*                                                                         *)
(* Abstractions: a title is only "empty" or "known" (it decides whether    *)
(* startDownload awaits the metadata probe); a progress percentage is one  *)
(* value MidPercent; file paths are the tokens of Paths; the output        *)
(* directory exists.                                                       *)
(***************************************************************************)
EXTENDS Integers, Sequences, FiniteSets, TLC

\* ---------------------------------------------------------------- bounds
NumUrls == 2
MaxLimit == 1
MaxRuns == 2
MaxRequests == 3
MaxStoreOps == 5

UrlIds == 1..NumUrls
Limits == 1..MaxLimit
RunIds == 1..MaxRuns
NoUrl == 0
MidPercent == 50
NoInput == -1
MinConcurrent == 1
MaxConcurrent == 10

AlreadyMsg == "This video is already being downloaded."
ProcessMsg == "Failed during download process."

VARIABLES
  config,           \* ServerManager.config.maxConcurrentDownloads, 0 = null
  appSettings,      \* ElectronApp._appSettings.maxConcurrentDownloads
  hostPc,           \* "down" | "idle" | "stopping" | "starting"
  activeDownloads,  \* ServerManager.activeDownloads: urlId -> controller (run)
  downloadsState,   \* ServerManager.downloadsState: urlId -> status, "none" = absent
  downloads,        \* the downloads table, keyed by its UNIQUE url_id
  runs,             \* adapter runs (closures of startDownload), by controller
  requests,         \* number of requests of clients and host so far
  admitted,         \* history: urlId was admitted, no terminal event or close since
  last,             \* the operation just executed, its result and its events
  schema,           \* DatabaseManager: connection, schema_version, sqlite_sequence
  savedSettings     \* maxConcurrentDownloads of the settings row 'app_settings'

vars == <<config, appSettings, hostPc, activeDownloads, downloadsState,
          downloads, runs, requests, admitted, last, schema, savedSettings>>

\* ------------------------------------------------------- small helpers
Empty == [u \in {} |-> 0]

Remove(f, u) == [x \in DOMAIN f \ {u} |-> f[x]]

Put(f, u, v) == [x \in DOMAIN f \cup {u} |-> IF x = u THEN v ELSE f[x]]

Ev(t, u, p) == [type |-> t, urlId |-> u, filePath |-> p]

Max(S) == CHOOSE x \in S : \A y \in S : y <= x

\* a run slot; terminals and late are history fields: the number of
\* terminal events (completed, failed, stopped) emitted for the run so far,
\* and whether a progress event was emitted for it after a terminal event
FreeRun ==
  [urlId |-> NoUrl, phase |-> "free", aborted |-> FALSE, currentFilePath |-> "",
   terminals |-> 0, late |-> FALSE]

\* the run has emitted one more terminal event (two stands for two or more)
Counted(run) == [run EXCEPT !.terminals = IF @ < 2 THEN @ + 1 ELSE @]

\* the run has emitted a progress event
Progressed(run) == [run EXCEPT !.late = @ \/ run.terminals >= 1]

\* the run is over: its closure is garbage, its event history stays on record
Released(run) == [FreeRun EXCEPT !.terminals = run.terminals, !.late = run.late]

\* ------------------------------------------ DownloadManager (the store)
\* AUTOINCREMENT id of the next inserted row: one above the largest id the
\* table has ever held, which is the larger of sqlite_sequence (schema.seq,
\* brought up to date when rows are deleted) and the ids of the rows
NextId(db) == Max({schema.seq} \cup {db[u].id : u \in DOMAIN db}) + 1

NewRow(db, st) ==
  [id |-> NextId(db), status |-> st, progress |-> 0, filePath |-> "",
   errorMessage |-> "", endTime |-> "now"]

\* INSERT OR REPLACE: the row of an existing url_id is replaced by a new one
createDownloadRecordReplace(db, u, st) == Put(db, u, NewRow(db, st))

\* INSERT OR IGNORE: an existing row is left as it is
createDownloadRecord(db, u, st) ==
  IF u \in DOMAIN db THEN db ELSE Put(db, u, NewRow(db, st))

handleDownloadStart(db, u) ==
  IF u \in DOMAIN db
  THEN [db EXCEPT ![u].status = "downloading", ![u].progress = 0,
                  ![u].errorMessage = "", ![u].endTime = "null"]
  ELSE createDownloadRecord(db, u, "pending")

\* UPDATE ... SET progress without the test of the status
updateProgressUnguarded(db, u, p) ==
  IF u \in DOMAIN db THEN [db EXCEPT ![u].progress = p] ELSE db

updateProgress(db, u, p) ==
  IF u \in DOMAIN db /\ db[u].status \in {"pending", "downloading"}
  THEN [db EXCEPT ![u].progress = p]
  ELSE db

\* file_path = COALESCE(filePath || null, file_path)
completeDownload(db, u, path) ==
  IF u \in DOMAIN db /\ db[u].status \in {"pending", "downloading"}
  THEN [db EXCEPT ![u].status = "completed", ![u].progress = 100,
                  ![u].filePath = IF path = "" THEN @ ELSE path,
                  ![u].endTime = "now"]
  ELSE db

failDownload(db, u, msg) ==
  IF u \in DOMAIN db
  THEN [db EXCEPT ![u].status = "failed", ![u].errorMessage = msg,
                  ![u].endTime = "now"]
  ELSE db

cancelDownload(db, u) ==
  IF u \in DOMAIN db /\ db[u].status \in {"pending", "downloading"}
  THEN [db EXCEPT ![u].status = "cancelled", ![u].endTime = "now"]
  ELSE db

retryDownload(db, u, st) ==
  [db EXCEPT ![u].status = st, ![u].progress = 0,
             ![u].errorMessage = "", ![u].endTime = "null"]

Queued(db) == {u \in DOMAIN db : db[u].status = "queued"}

\* ORDER BY id DESC: the newest queued row
NewestQueued(db) ==
  CHOOSE u \in Queued(db) : \A v \in Queued(db) : db[u].id >= db[v].id

\* WHERE status = 'queued' ORDER BY id ASC LIMIT 1
OldestQueued(db) ==
  CHOOSE u \in Queued(db) : \A v \in Queued(db) : db[u].id <= db[v].id

popNextQueuedDownload(db) ==
  IF Queued(db) = {}
  THEN [urlId |-> NoUrl, downloads |-> db]
  ELSE [urlId |-> OldestQueued(db),
        downloads |-> [db EXCEPT ![OldestQueued(db)].status = "pending"]]

getDownloadsByStatus(db, sts) == {u \in DOMAIN db : db[u].status \in sts}

\* ---------------------------------------- DatabaseManager (the schema)
\* the versions of DatabaseManager.migrations, in array order
migrations == <<1, 2>>

TopVersion == migrations[Len(migrations)]

\* SELECT MAX(version) FROM schema_version, 0 without the table or a row
currentVersion(sc) == IF sc.versions = {} THEN 0 ELSE Max(sc.versions)

\* migrations.filter(m => m.version >= currentVersion)
pendingFromCurrent(v) == SelectSeq(migrations, LAMBDA m : m >= v)

\* migrations.filter(m => m.version > currentVersion)
pendingMigrations(v) == SelectSeq(migrations, LAMBDA m : m > v)

\* db.exec(migration.sql) for each pending migration, in order.  The SQL of
\* a migration creates its tables without IF NOT EXISTS and inserts its
\* version, so it throws when that version is recorded already; it also
\* throws when the environment fails it (fault).  The result is the set of
\* recorded versions, or ok = FALSE once a statement has thrown.
RECURSIVE execMigrations(_, _, _)
execMigrations(versions, pending, fault) ==
  IF pending = <<>> THEN [ok |-> TRUE, versions |-> versions]
  ELSE IF Head(pending) = fault \/ Head(pending) \in versions
  THEN [ok |-> FALSE, versions |-> versions]
  ELSE execMigrations(versions \cup {Head(pending)}, Tail(pending), fault)

\* runMigrations: the pending migrations run in one transaction, which is
\* rolled back as a whole when a migration throws; the error is re-thrown.
\* from, fault and applied are history fields: the version found, the
\* migration the environment failed, the migrations committed.
runMigrations(sc, fault) ==
  LET v == currentVersion(sc)
      pending == pendingMigrations(v)
      r == execMigrations(sc.versions, pending, fault)
  IN IF r.ok
     THEN [sc EXCEPT !.versions = r.versions, !.applied = pending,
                     !.from = v, !.fault = fault, !.status = "open"]
     ELSE [sc EXCEPT !.applied = <<>>, !.from = v, !.fault = fault,
                     !.status = "failed"]

\* reindexDownloadsId: the rows are copied in created_at order into a new
\* table, which numbers them 1, 2, ...  created_at is the time of the
\* insert and ids are assigned in increasing order, so this is the order
\* of the old ids.
reindexDownloadsId(db) ==
  [u \in DOMAIN db |->
     [db[u] EXCEPT !.id = Cardinality({v \in DOMAIN db : db[v].id <= db[u].id})]]

\* the store of an installation at the newest schema version, as the
\* gateway model sees it
CurrentSchema ==
  [versions |-> {migrations[i] : i \in 1..Len(migrations)}, status |-> "open",
   seq |-> 0, applied |-> <<>>, from |-> TopVersion, fault |-> 0, ops |-> 0]

\* ------------------------------------------------ ServerManager (engine)
\* The mutable state a handler works on, with the events it has emitted,
\* the value it returns and the branch it took.  wsServer tells whether the
\* WebSocket server exists (from the listen callback to cleanup); pushed is
\* the list of messages sent to every open client of it.
Cur ==
  [activeDownloads |-> activeDownloads, downloadsState |-> downloadsState,
   downloads |-> downloads, runs |-> runs, config |-> config, events |-> <<>>,
   ret |-> FALSE, outcome |-> "", ok |-> TRUE,
   wsServer |-> hostPc \in {"idle", "stopping"}, pushed |-> <<>>]

FreeRuns(rn) == {r \in RunIds : rn[r].phase = "free"}

FirstFree(rn) == CHOOSE r \in FreeRuns(rn) : \A q \in FreeRuns(rn) : r <= q

\* a message of the push channel
Msg(t, u, st) == [type |-> t, urlId |-> u, status |-> st]

\* broadcastWsMessage: without a WebSocket server nothing is sent, else the
\* message goes to every open client
broadcastWsMessage(s, t, u, st) ==
  IF s.wsServer THEN [s EXCEPT !.pushed = Append(@, Msg(t, u, st))] ELSE s

\* emit('download-failed') with its ElectronApp listener -> failDownload,
\* which emits 'download-finished' when a row was updated; ServerManager
\* broadcasts that event
EmitFailed(s, u, msg) ==
  LET s1 == [s EXCEPT !.downloads = failDownload(@, u, msg),
                      !.events = Append(@, Ev("download-failed", u, ""))]
  IN IF u \in DOMAIN s.downloads
     THEN broadcastWsMessage(s1, "download-finished", u, "failed")
     ELSE s1

\* emit('download-completed') with its listener -> completeDownload, which
\* emits 'download-finished' when a row was updated
EmitCompleted(s, u, path) ==
  LET s1 == [s EXCEPT !.downloads = completeDownload(@, u, path),
                      !.events = Append(@, Ev("download-completed", u, path))]
  IN IF u \in DOMAIN s.downloads /\ s.downloads[u].status \in {"pending", "downloading"}
     THEN broadcastWsMessage(s1, "download-finished", u, "completed")
     ELSE s1

\* emit('download-started') with its listener -> handleDownloadStart
EmitStarted(s, u) ==
  [s EXCEPT !.downloads = handleDownloadStart(@, u),
            !.events = Append(@, Ev("download-started", u, ""))]

\* emit('download-progress') with its listener -> updateProgress
EmitProgress(s, u, p) ==
  [s EXCEPT !.downloads = updateProgress(@, u, p),
            !.events = Append(@, Ev("download-progress", u, ""))]

\* emit('download-stopped') with its listener -> cancelDownload
EmitStopped(s, u) ==
  [s EXCEPT !.downloads = cancelDownload(@, u),
            !.events = Append(@, Ev("download-stopped", u, ""))]

\* emit('download-queued') with its listener -> createDownloadRecord(.., 'queued')
EmitQueued(s, u) ==
  [s EXCEPT !.downloads = createDownloadRecord(@, u, "queued"),
            !.events = Append(@, Ev("download-queued", u, ""))]

\* ytDlpWrap.exec(...) of startDownload and the catch around it
execAdapter(s, r, u, execOk) ==
  IF execOk
  THEN [s EXCEPT !.runs[r].phase = "running"]
  ELSE EmitFailed([s EXCEPT !.activeDownloads = Remove(@, u),
                            !.runs[r] = Released(Counted(@))],
                  u, "Failed to start download")

\* what follows the admission of a start request: "probe" when data.title
\* is empty (await of the metadata probe), else exec is called at once and
\* returns ("exec") or throws ("throw")
Modes(relevant) == IF relevant THEN {"probe", "exec", "throw"} ELSE {"probe"}

\* the size test of startDownload, off by one
AtCapacityOffByOne(s) == Cardinality(DOMAIN s.activeDownloads) > s.config

\* activeDownloads.size >= config.maxConcurrentDownloads
AtCapacity(s) == Cardinality(DOMAIN s.activeDownloads) >= s.config

\* a duplicate test that also looks at the stored status of the urlId
activeOrInFlight(s, u) ==
  \/ u \in DOMAIN s.activeDownloads
  \/ u \in DOMAIN s.downloads /\ s.downloads[u].status \in {"pending", "downloading"}

\* this.activeDownloads.has(data.urlId)
activeDownloadsHas(s, u) == u \in DOMAIN s.activeDownloads

\* startDownload up to its first await on I/O
startDownload(s, u, mode) ==
  IF activeDownloadsHas(s, u)
  THEN [EmitFailed(s, u, AlreadyMsg) EXCEPT !.ret = FALSE, !.outcome = "already downloading"]
  ELSE IF u \in DOMAIN s.downloads /\ s.downloads[u].status = "completed"
  THEN [broadcastWsMessage(
           EmitCompleted([s EXCEPT !.downloadsState[u] = "completed"],
                         u, s.downloads[u].filePath),
           "download-completed", u, "")
          EXCEPT !.ret = FALSE, !.outcome = "completed"]
  ELSE IF AtCapacity(s)
  THEN [EmitQueued([s EXCEPT !.downloads = createDownloadRecord(@, u, "queued")], u)
          EXCEPT !.ret = TRUE, !.outcome = "queued"]
  ELSE IF FreeRuns(s.runs) = {}
  THEN [s EXCEPT !.ok = FALSE]
  ELSE LET r == FirstFree(s.runs)
           s1 == EmitStarted(
                   [s EXCEPT !.activeDownloads = Put(@, u, r),
                             !.downloadsState[u] = "started",
                             !.runs[r] = [urlId |-> u, phase |-> "probe",
                                          aborted |-> FALSE, currentFilePath |-> "",
                                          terminals |-> 0, late |-> FALSE],
                             !.ret = TRUE, !.outcome = "started"], u)
       IN IF mode = "probe" THEN s1 ELSE execAdapter(s1, r, u, mode = "exec")

\* processDownloadQueue with the 'request-next-download' listener of
\* ElectronApp: pop the oldest queued row and start it from the host.
WouldPop(s) ==
  /\ s.config # 0
  /\ Cardinality(DOMAIN s.activeDownloads) < s.config
  /\ Queued(s.downloads) # {}

processDownloadQueue(s, mode) ==
  IF s.config # 0 /\ Cardinality(DOMAIN s.activeDownloads) < s.config
  THEN LET s1 == [s EXCEPT !.events = Append(@, Ev("request-next-download", NoUrl, ""))]
           p == popNextQueuedDownload(s1.downloads)
       IN IF p.urlId = NoUrl
          THEN s1
          ELSE startDownload([s1 EXCEPT !.downloads = p.downloads], p.urlId, mode)
  ELSE s

\* stopDownload without the test for an active controller
stopDownloadUnguarded(s, u) ==
  [EmitStopped([s EXCEPT !.activeDownloads = Remove(@, u),
                         !.downloadsState[u] = "stop"], u)
     EXCEPT !.ret = TRUE, !.outcome = "stopped"]

stopDownload(s, u) ==
  IF u \in DOMAIN s.activeDownloads
  THEN [EmitStopped([s EXCEPT !.runs[s.activeDownloads[u]] =
                                 Counted([@ EXCEPT !.aborted = TRUE]),
                              !.activeDownloads = Remove(@, u),
                              !.downloadsState[u] = "stop"], u)
          EXCEPT !.ret = TRUE, !.outcome = "stopped"]
  ELSE [s EXCEPT !.ret = FALSE, !.outcome = "not active"]

\* the adapter's close handler after the status test, from the state write
\* of line 351 on: statSync throws when the file is missing, and then
\* neither the event nor the queue advancement is reached
finishClose(s, r, path, statOk, mode) ==
  LET u == s.runs[r].urlId
      s1 == [s EXCEPT !.downloadsState[u] = "completed"]
  IN IF statOk
     THEN processDownloadQueue(
            broadcastWsMessage(
              EmitCompleted([s1 EXCEPT !.runs[r] = Released(Counted(@))], u, path),
              "download-completed", u, ""), mode)
     ELSE [s1 EXCEPT !.runs[r] = Released(@)]

\* history variable: admitted by 'download-started', ended by a terminal event
RECURSIVE Track(_, _)
Track(adm, evs) ==
  IF evs = <<>> THEN adm
  ELSE LET e == Head(evs)
           a == IF e.type = "download-started" THEN [adm EXCEPT ![e.urlId] = TRUE]
                ELSE IF e.type \in {"download-completed", "download-failed", "download-stopped"}
                THEN [adm EXCEPT ![e.urlId] = FALSE]
                ELSE adm
       IN Track(a, Tail(evs))

\* no HTTP response: the step is not a POST /download
NoResponse == [success |-> FALSE, status |-> "", error |-> ""]

\* res.json of POST /download for the value startDownload returned
downloadResponse(started) ==
  IF started
  THEN [success |-> TRUE, status |-> "completed", error |-> ""]
  ELSE [success |-> FALSE, status |-> "completed", error |-> AlreadyMsg]

\* a handler's effects become the next state
Commit(s, op, u) ==
  /\ s.ok
  /\ activeDownloads' = s.activeDownloads
  /\ downloadsState' = s.downloadsState
  /\ downloads' = s.downloads
  /\ runs' = s.runs
  /\ admitted' = Track(IF op = "close" THEN [admitted EXCEPT ![u] = FALSE] ELSE admitted,
                       s.events)
  /\ last' = [op |-> op, urlId |-> u, ret |-> s.ret, outcome |-> s.outcome,
              events |-> s.events, ids |-> <<>>, reply |-> {}, repeat |-> FALSE,
              pushed |-> s.pushed,
              response |-> IF op = "POST /download" THEN downloadResponse(s.ret)
                           ELSE NoResponse,
              input |-> NoInput]

Note(op) ==
  [op |-> op, urlId |-> NoUrl, ret |-> FALSE, outcome |-> "", events |-> <<>>,
   ids |-> <<>>, reply |-> {}, repeat |-> FALSE, pushed |-> <<>>,
   response |-> NoResponse, input |-> NoInput]

\* ------------------------------------------------------------ the state
Init ==
  /\ config = 0
  /\ appSettings \in Limits
  /\ hostPc = "down"
  /\ activeDownloads = Empty
  /\ downloadsState = [u \in UrlIds |-> "none"]
  /\ downloads = Empty
  /\ runs = [r \in RunIds |-> FreeRun]
  /\ requests = 0
  /\ admitted = [u \in UrlIds |-> FALSE]
  /\ last = Note("init")
  /\ schema = CurrentSchema
  /\ savedSettings = appSettings

\* -------------------------------------------------- requests of clients
\* every request of a client or of the user counts against MaxRequests
Request ==
  /\ requests < MaxRequests
  /\ requests' = requests + 1

\* the start request would pass the three tests of startDownload
WouldAdmit(s, u) ==
  /\ u \notin DOMAIN s.activeDownloads
  /\ ~(u \in DOMAIN s.downloads /\ s.downloads[u].status = "completed")
  /\ ~AtCapacity(s)

\* POST /download: the downloadsState entry is reset before startDownload;
\* the request carries no title
HttpDownload(u) ==
  /\ Request
  /\ hostPc = "idle"
  /\ Commit(startDownload([Cur EXCEPT !.downloadsState[u] = "started"], u, "probe"),
            "POST /download", u)
  /\ UNCHANGED <<config, appSettings, hostPc>>
  /\ UNCHANGED <<schema, savedSettings>>

\* ipcMain 'start-download' -> startDownloadFromMain(url, urlId, '')
IpcStartDownload(u) ==
  /\ Request
  /\ hostPc # "down"
  /\ config # 0
  /\ Commit(startDownload(Cur, u, "probe"), "start-download", u)
  /\ UNCHANGED <<config, appSettings, hostPc>>
  /\ UNCHANGED <<schema, savedSettings>>

\* ipcMain 'retry-download' -> retryDownload -> 'download-restarted-request'
\* -> startDownloadFromMain, which throws (and is caught) without a config
RetryHint == IF Cardinality(DOMAIN activeDownloads) >= appSettings THEN "queued" ELSE "pending"

restartRequest(s, u, mode) ==
  IF s.config = 0 THEN s ELSE startDownload(s, u, mode)

IpcRetryDownload(u) ==
  /\ Request
  /\ hostPc # "down"
  /\ u \in DOMAIN downloads
  /\ LET s1 == [Cur EXCEPT !.downloads = retryDownload(@, u, RetryHint)]
     IN \E mode \in Modes(s1.config # 0 /\ WouldAdmit(s1, u)) :
          Commit(restartRequest(s1, u, mode), "retry-download", u)
  /\ UNCHANGED <<config, appSettings, hostPc>>
  /\ UNCHANGED <<schema, savedSettings>>

\* POST /stop_download and ipcMain 'stop-download'
StopDownload(u) ==
  /\ Request
  /\ hostPc # "down"
  /\ Commit(stopDownload(Cur, u), "stopDownload", u)
  /\ UNCHANGED <<config, appSettings, hostPc>>
  /\ UNCHANGED <<schema, savedSettings>>

\* [...new Set(url_ids)]: the first occurrence of every id, in order
RECURSIVE removeDuplicates(_)
removeDuplicates(ids) ==
  IF ids = <<>> THEN <<>>
  ELSE LET front == removeDuplicates(SubSeq(ids, 1, Len(ids) - 1))
           x == ids[Len(ids)]
       IN IF \E i \in 1..Len(front) : front[i] = x THEN front ELSE Append(front, x)

\* url_ids.filter(id => !existing.has(id))
RECURSIVE newUrlIds(_, _)
newUrlIds(db, ids) ==
  IF ids = <<>> THEN <<>>
  ELSE IF Head(ids) \in DOMAIN db
  THEN newUrlIds(db, Tail(ids))
  ELSE <<Head(ids)>> \o newUrlIds(db, Tail(ids))

\* the transaction that inserts the new ids as 'check' rows, in list order
\* (INSERT ... ON CONFLICT(url_id) DO NOTHING)
RECURSIVE bulkInsert(_, _)
bulkInsert(db, ids) ==
  IF ids = <<>> THEN db
  ELSE bulkInsert(createDownloadRecord(db, Head(ids), "check"), Tail(ids))

\* the reply without its NOT IN filter: every url_id of the table
allUrlIds(db, ids) == DOMAIN db

\* SELECT url_id FROM downloads WHERE url_id NOT IN (url_ids), after the insert
missingUrlIds(db, ids) == DOMAIN db \ {ids[i] : i \in 1..Len(ids)}

\* the id lists a client can send: up to NumUrls ids, repetitions included
ClientLists == UNION {[1..n -> UrlIds] : n \in 0..NumUrls}

\* the ids of a list, as a set
IdSet(ids) == {ids[i] : i \in 1..Len(ids)}

\* sync-history with a plain INSERT OR REPLACE of every id of the client:
\* neither the filter on existing ids nor ON CONFLICT DO NOTHING
SyncHistoryReinsert(ids) ==
  /\ Request
  /\ hostPc = "idle"
  /\ LET RECURSIVE reinsert(_, _)
         reinsert(db, l) ==
           IF l = <<>> THEN db
           ELSE reinsert(createDownloadRecordReplace(db, Head(l), "check"), Tail(l))
         url_ids == removeDuplicates(ids)
     IN /\ downloads' = reinsert(downloads, url_ids)
        /\ last' = [Note("sync-history") EXCEPT
                      !.ids = ids,
                      !.reply = missingUrlIds(downloads', url_ids),
                      !.repeat = (last.op = "sync-history" /\ IdSet(last.ids) = IdSet(ids))]
  /\ UNCHANGED <<config, appSettings, hostPc, activeDownloads, downloadsState,
                 runs, admitted>>
  /\ UNCHANGED <<schema, savedSettings>>

\* ws 'sync-history': ids of the client missing in the table are inserted
\* as 'check' rows, ids of the table missing at the client are sent back.
\* last.repeat records that the message before this one was a sync-history
\* with the same set of ids.
SyncHistory(ids) ==
  /\ Request
  /\ hostPc = "idle"
  /\ LET url_ids == removeDuplicates(ids)
     IN /\ downloads' = bulkInsert(downloads, newUrlIds(downloads, url_ids))
        /\ last' = [Note("sync-history") EXCEPT
                      !.ids = ids,
                      !.reply = missingUrlIds(downloads', url_ids),
                      !.repeat = (last.op = "sync-history" /\ IdSet(last.ids) = IdSet(ids))]
  /\ UNCHANGED <<config, appSettings, hostPc, activeDownloads, downloadsState,
                 runs, admitted>>
  /\ UNCHANGED <<schema, savedSettings>>

\* ------------------------------------------------------ adapter events
\* the metadata probe of startDownload returns; exec is called
ProbeDone(r) ==
  /\ UNCHANGED requests
  /\ runs[r].phase = "probe"
  /\ \E execOk \in BOOLEAN :
       Commit(execAdapter(Cur, r, runs[r].urlId, execOk), "exec", runs[r].urlId)
  /\ UNCHANGED <<config, appSettings, hostPc>>
  /\ UNCHANGED <<schema, savedSettings>>

\* ytDlpEvent 'download' with a percentage; output the process wrote before
\* it was killed is still delivered after stopDownload, and the handler
\* does not look at the cancellation
AdapterProgress(r) ==
  /\ UNCHANGED requests
  /\ runs[r].phase = "running"
  /\ Commit(EmitProgress([Cur EXCEPT !.downloadsState[runs[r].urlId] = "progress",
                                      !.runs[r] = Progressed(@)],
                         runs[r].urlId, MidPercent), "progress", runs[r].urlId)
  /\ UNCHANGED <<config, appSettings, hostPc>>
  /\ UNCHANGED <<schema, savedSettings>>

\* ytDlpEvent 'download' with 'Destination: ' or 'Merger' with 'into '
AdapterDestination(r) ==
  /\ UNCHANGED requests
  /\ runs[r].phase = "running" /\ ~runs[r].aborted
  /\ runs[r].currentFilePath = ""
  /\ Commit([Cur EXCEPT !.runs[r].currentFilePath = "dest"], "destination", runs[r].urlId)
  /\ UNCHANGED <<config, appSettings, hostPc>>
  /\ UNCHANGED <<schema, savedSettings>>

\* ytDlpEvent 'download' ending in 'has already been downloaded'
AdapterAlreadyDownloaded(r) ==
  /\ UNCHANGED requests
  /\ runs[r].phase = "running" /\ ~runs[r].aborted
  /\ LET u == runs[r].urlId
         s1 == EmitCompleted([Cur EXCEPT !.activeDownloads = Remove(@, u),
                                         !.downloadsState[u] = "completed",
                                         !.runs[r] = Counted(@)],
                             u, "existing")
     IN \E mode \in Modes(WouldPop(s1)) :
          Commit(processDownloadQueue(s1, mode), "already downloaded", u)
  /\ UNCHANGED <<config, appSettings, hostPc>>
  /\ UNCHANGED <<schema, savedSettings>>

\* 'error': an AbortError of a cancelled run is ignored; any other error
\* fails the download.  The adapter may or may not emit 'close' afterwards.
AdapterError(r) ==
  /\ UNCHANGED requests
  /\ runs[r].phase = "running"
  /\ LET u == runs[r].urlId IN
     IF runs[r].aborted
     THEN Commit([Cur EXCEPT !.runs[r].phase = "errored"], "abort error", u)
     ELSE \E closes \in BOOLEAN :
            LET s1 == EmitFailed(
                        [Cur EXCEPT !.activeDownloads = Remove(@, u),
                                    !.downloadsState[u] = "error",
                                    !.runs[r] = IF closes
                                                THEN Counted([@ EXCEPT !.phase = "errored"])
                                                ELSE Released(Counted(@))],
                        u, ProcessMsg)
            IN \E mode \in Modes(WouldPop(s1)) :
                 Commit(processDownloadQueue(s1, mode), "error", u)
  /\ UNCHANGED <<config, appSettings, hostPc>>
  /\ UNCHANGED <<schema, savedSettings>>

\* 'close' up to the await of the post-hoc filename resolution
AdapterClose(r) ==
  /\ UNCHANGED requests
  /\ runs[r].phase \in {"running", "errored"}
  /\ LET u == runs[r].urlId
         s1 == [Cur EXCEPT !.activeDownloads = Remove(@, u)]
     IN IF downloadsState[u] \in {"stop", "error"}
        THEN \E mode \in Modes(WouldPop(s1)) :
               Commit(processDownloadQueue([s1 EXCEPT !.runs[r] = Released(@)], mode), "close", u)
        ELSE IF runs[r].currentFilePath = ""
        THEN Commit([s1 EXCEPT !.runs[r].phase = "resolve"], "close", u)
        ELSE \/ Commit(finishClose(s1, r, runs[r].currentFilePath, FALSE, "probe"), "close", u)
             \/ \E mode \in Modes(WouldPop(s1)) :
                  Commit(finishClose(s1, r, runs[r].currentFilePath, TRUE, mode), "close", u)
  /\ UNCHANGED <<config, appSettings, hostPc>>
  /\ UNCHANGED <<schema, savedSettings>>

\* the rest of the close handler once the filename lookup has returned
CloseResolved(r) ==
  /\ UNCHANGED requests
  /\ runs[r].phase = "resolve"
  /\ \/ Commit(finishClose(Cur, r, "resolved", FALSE, "probe"),
               "close resolved", runs[r].urlId)
     \/ \E mode \in Modes(WouldPop(Cur)) :
          Commit(finishClose(Cur, r, "resolved", TRUE, mode),
                 "close resolved", runs[r].urlId)
  /\ UNCHANGED <<config, appSettings, hostPc>>
  /\ UNCHANGED <<schema, savedSettings>>

\* ---------------------------------------------------------------- host
\* resumeUnfinishedDownloads: retryDownload(id) with the default status
\* 'pending' for each unfinished row, each followed by its restart request
RECURSIVE resume(_, _, _)
resume(s, order, modes) ==
  IF order = <<>> THEN s
  ELSE LET u == Head(order)
       IN resume(restartRequest([s EXCEPT !.downloads = retryDownload(@, u, "pending")],
                                u, modes[u]),
                 Tail(order), modes)

Orders(S) == {q \in [1..Cardinality(S) -> S] : \A i, j \in 1..Cardinality(S) : i # j => q[i] # q[j]}

\* the statuses resumed at start, without the queued rows
UnfinishedNoQueued == {"downloading", "pending"}

\* getDownloadsByStatus(['downloading', 'pending', 'queued'])
UnfinishedStatuses == {"downloading", "pending", "queued"}

\* app ready: DatabaseManager.initialize (its renumbering of the rows),
\* startServer, then resumeUnfinishedDownloads.  The listen
\* callback, the return of startServer and the whole resume loop run in one
\* turn of the event loop: only promise continuations lie between them.
Boot ==
  /\ UNCHANGED requests
  /\ hostPc = "down"
  /\ config' = appSettings
  /\ hostPc' = "idle"
  /\ \E order \in Orders(getDownloadsByStatus(downloads, UnfinishedStatuses)) :
     \E modes \in [getDownloadsByStatus(downloads, UnfinishedStatuses) -> Modes(TRUE)] :
       LET s == resume([Cur EXCEPT !.config = appSettings, !.wsServer = TRUE,
                                   !.downloads = reindexDownloadsId(@)],
                       order, modes)
       IN /\ s.ok
          /\ activeDownloads' = s.activeDownloads
          /\ downloadsState' = s.downloadsState
          /\ downloads' = s.downloads
          /\ runs' = s.runs
          /\ admitted' = Track(admitted, s.events)
          /\ last' = [Note("boot") EXCEPT !.events = s.events, !.pushed = s.pushed]
  /\ UNCHANGED appSettings
  /\ UNCHANGED <<schema, savedSettings>>

\* the process ends (quit or crash): only the table and the settings survive
ProcessExit ==
  /\ Request
  /\ hostPc # "down"
  /\ hostPc' = "down"
  /\ config' = 0
  /\ activeDownloads' = Empty
  /\ downloadsState' = [u \in UrlIds |-> "none"]
  /\ runs' = [r \in RunIds |-> FreeRun]
  /\ admitted' = [u \in UrlIds |-> FALSE]
  /\ last' = Note("exit")
  /\ UNCHANGED <<appSettings, downloads>>
  /\ UNCHANGED <<schema, savedSettings>>

\* the values of maxConcurrentDownloads a settings form can send: the
\* limits of the model and one value on either side of the valid range
SettingInputs == Limits \cup {MinConcurrent - 1, MaxConcurrent + 1}

\* a validation that accepts every value
validateAny(n) == TRUE

\* SettingsManager.validate, for maxConcurrentDownloads (the other fields
\* of the settings are valid)
validate(n) == n >= MinConcurrent /\ n <= MaxConcurrent

\* ipcMain 'save-settings' with a changed maxConcurrentDownloads, and
\* 'restart-server' / 'reset-settings' / tray restart with the same one.
\* Invalid settings throw before anything is saved; valid ones are written
\* to the settings row, cached, and the gateway is restarted.
SaveSettings(n) ==
  /\ Request
  /\ hostPc = "idle"
  /\ last' = [Note("save-settings") EXCEPT !.input = n]
  /\ IF validate(n)
     THEN /\ savedSettings' = n
          /\ appSettings' = n
          /\ hostPc' = "stopping"
     ELSE UNCHANGED <<savedSettings, appSettings, hostPc>>
  /\ UNCHANGED <<config, activeDownloads, downloadsState, downloads, runs, admitted>>
  /\ UNCHANGED schema

\* ServerManager.cleanup once the servers are closed
Cleanup ==
  /\ UNCHANGED requests
  /\ hostPc = "stopping"
  /\ hostPc' = "starting"
  /\ config' = 0
  /\ activeDownloads' = Empty
  /\ downloadsState' = [u \in UrlIds |-> "none"]
  /\ last' = Note("cleanup")
  /\ UNCHANGED <<appSettings, downloads, runs, admitted>>
  /\ UNCHANGED <<schema, savedSettings>>

\* ServerManager.start once the ports are checked
ServerStart ==
  /\ UNCHANGED requests
  /\ hostPc = "starting"
  /\ hostPc' = "idle"
  /\ config' = appSettings
  /\ last' = Note("server-started")
  /\ UNCHANGED <<appSettings, activeDownloads, downloadsState, downloads, runs, admitted>>
  /\ UNCHANGED <<schema, savedSettings>>

Next ==
  \/ Boot
  \/ ProcessExit
  \/ \E u \in UrlIds : HttpDownload(u)
  \/ \E u \in UrlIds : IpcStartDownload(u)
  \/ \E u \in UrlIds : IpcRetryDownload(u)
  \/ \E u \in UrlIds : StopDownload(u)
  \/ \E ids \in ClientLists : SyncHistory(ids)
  \/ \E n \in SettingInputs : SaveSettings(n)
  \/ Cleanup
  \/ ServerStart
  \/ \E r \in RunIds : ProbeDone(r)
  \/ \E r \in RunIds : AdapterProgress(r)
  \/ \E r \in RunIds : AdapterDestination(r)
  \/ \E r \in RunIds : AdapterAlreadyDownloaded(r)
  \/ \E r \in RunIds : AdapterError(r)
  \/ \E r \in RunIds : AdapterClose(r)
  \/ \E r \in RunIds : CloseResolved(r)

Spec == Init /\ [][Next]_vars

\* ------------------------------------------------- the queue by itself
\* Stores in which several rows wait at once.  With NumUrls urlIds and one
\* slot this needs a download outside UrlIds that holds the slot, so the
\* queue discipline is checked from such stores: every tracked urlId has a
\* row, the ids are any creation order, and the slot holder has been
\* stopped (stopDownload does not advance the queue, its close does).
QueueStatuses == {"queued", "failed", "check"}

QueueStores ==
  {db \in [UrlIds -> [id : UrlIds, status : QueueStatuses, progress : {0},
                      filePath : {""}, errorMessage : {""}, endTime : {"now"}]] :
     \A u, v \in UrlIds : u # v => db[u].id # db[v].id}

InitQueue ==
  /\ appSettings \in Limits
  /\ config = appSettings
  /\ hostPc = "idle"
  /\ activeDownloads = Empty
  /\ downloadsState = [u \in UrlIds |-> "none"]
  /\ downloads \in QueueStores
  /\ runs = [r \in RunIds |-> FreeRun]
  /\ requests = 0
  /\ admitted = [u \in UrlIds |-> FALSE]
  /\ last = Note("init")
  /\ schema = CurrentSchema
  /\ savedSettings = appSettings

\* the close handler of a stopped download whose urlId is not tracked: its
\* status is 'stop', so it only calls processDownloadQueue
ForeignClose ==
  /\ UNCHANGED requests
  /\ hostPc = "idle"
  /\ WouldPop(Cur)
  /\ \E mode \in Modes(TRUE) :
       Commit(processDownloadQueue(Cur, mode), "foreign close", NoUrl)
  /\ UNCHANGED <<config, appSettings, hostPc>>
  /\ UNCHANGED <<schema, savedSettings>>

NextQueue ==
  \/ ForeignClose
  \/ \E r \in RunIds : ProbeDone(r)
  \/ \E r \in RunIds : AdapterProgress(r)
  \/ \E r \in RunIds : AdapterDestination(r)
  \/ \E r \in RunIds : AdapterAlreadyDownloaded(r)
  \/ \E r \in RunIds : AdapterError(r)
  \/ \E r \in RunIds : AdapterClose(r)
  \/ \E r \in RunIds : CloseResolved(r)

SpecQueue == InitQueue /\ [][NextQueue]_vars

\* ------------------------------------------------- the store by itself
\* Start and end of the process as DatabaseManager sees them, with the
\* inserts and deletes of rows in between.  The file is new or was left by
\* an earlier version of the application.
InitStore ==
  /\ appSettings \in Limits
  /\ savedSettings = appSettings
  /\ config = 0
  /\ hostPc = "down"
  /\ activeDownloads = Empty
  /\ downloadsState = [u \in UrlIds |-> "none"]
  /\ downloads = Empty
  /\ runs = [r \in RunIds |-> FreeRun]
  /\ requests = 0
  /\ admitted = [u \in UrlIds |-> FALSE]
  /\ last = Note("init")
  /\ \E v \in 0..TopVersion :
       schema = [versions |-> {migrations[i] : i \in 1..v}, status |-> "closed",
                 seq |-> 0, applied |-> <<>>, from |-> v, fault |-> 0, ops |-> 0]

StoreUnchanged ==
  UNCHANGED <<config, appSettings, hostPc, activeDownloads, downloadsState,
              runs, requests, admitted, savedSettings>>

\* one more operation on the store
StoreOp(sc) == [sc EXCEPT !.ops = @ + 1]

\* DatabaseManager.initialize: runMigrations, then reindexDownloadsId; an
\* error of runMigrations is re-thrown and the application quits
StoreInitialize(fault) ==
  /\ schema.status = "closed"
  /\ schema.ops < MaxStoreOps
  /\ LET sc == runMigrations(StoreOp(schema), fault)
     IN IF sc.status = "open"
        THEN /\ downloads' = reindexDownloadsId(downloads)
             /\ schema' = [sc EXCEPT !.seq = Cardinality(DOMAIN downloads)]
        ELSE /\ downloads' = downloads
             /\ schema' = sc
  /\ last' = Note("initialize")
  /\ StoreUnchanged

\* createDownloadRecord for a urlId without a row: AUTOINCREMENT gives the
\* row an id above every id the table has ever held
StoreCreate(u) ==
  /\ schema.status = "open"
  /\ schema.ops < MaxStoreOps
  /\ u \notin DOMAIN downloads
  /\ downloads' = Put(downloads, u, [NewRow(downloads, "pending") EXCEPT !.id = schema.seq + 1])
  /\ schema' = [StoreOp(schema) EXCEPT !.seq = @ + 1]
  /\ last' = [Note("create") EXCEPT !.urlId = u]
  /\ StoreUnchanged

\* deleteRecords([id]) for the row of u
StoreDelete(u) ==
  /\ schema.status = "open"
  /\ schema.ops < MaxStoreOps
  /\ u \in DOMAIN downloads
  /\ downloads' = Remove(downloads, u)
  /\ schema' = StoreOp(schema)
  /\ last' = [Note("delete") EXCEPT !.urlId = u]
  /\ StoreUnchanged

\* the process ends: quit closes the connection; after a failed
\* initialization the application has quit by itself
StoreClose ==
  /\ schema.status \in {"open", "failed"}
  /\ schema' = [schema EXCEPT !.status = "closed"]
  /\ last' = Note("exit")
  /\ UNCHANGED downloads
  /\ StoreUnchanged

NextStore ==
  \/ \E fault \in 0..TopVersion : StoreInitialize(fault)
  \/ \E u \in UrlIds : StoreCreate(u)
  \/ \E u \in UrlIds : StoreDelete(u)
  \/ StoreClose

SpecStore == InitStore /\ [][NextStore]_vars

\* ------------------------------------------- the history being edited
\* The gateway with the two requests of the history view that delete rows.
\* Neither looks at the active set, so the row of a running download can
\* be deleted.  The process is started once and keeps running.
\* sqlite_sequence keeps the largest id the table has held
Sequence(sc, db) == [sc EXCEPT !.seq = Max({@} \cup {db[u].id : u \in DOMAIN db})]

\* ipcMain 'delete-downloads' -> deleteRecords([id]) for the row of u
DeleteDownloads(u) ==
  /\ Request
  /\ hostPc # "down"
  /\ u \in DOMAIN downloads
  /\ downloads' = Remove(downloads, u)
  /\ schema' = Sequence(schema, downloads)
  /\ last' = [Note("delete-downloads") EXCEPT !.urlId = u]
  /\ UNCHANGED <<config, appSettings, hostPc, activeDownloads, downloadsState,
                 runs, admitted, savedSettings>>

\* ipcMain 'clear-download-history' -> clearHistory: DELETE FROM downloads
ClearHistory ==
  /\ Request
  /\ hostPc # "down"
  /\ downloads' = Empty
  /\ schema' = Sequence(schema, downloads)
  /\ last' = Note("clear-download-history")
  /\ UNCHANGED <<config, appSettings, hostPc, activeDownloads, downloadsState,
                 runs, admitted, savedSettings>>

NextHistory ==
  \/ Boot
  \/ \E u \in UrlIds : HttpDownload(u)
  \/ \E u \in UrlIds : IpcStartDownload(u)
  \/ \E u \in UrlIds : IpcRetryDownload(u)
  \/ \E u \in UrlIds : StopDownload(u)
  \/ \E ids \in ClientLists : SyncHistory(ids)
  \/ \E u \in UrlIds : DeleteDownloads(u)
  \/ ClearHistory
  \/ \E r \in RunIds : ProbeDone(r)
  \/ \E r \in RunIds : AdapterProgress(r)
  \/ \E r \in RunIds : AdapterDestination(r)
  \/ \E r \in RunIds : AdapterAlreadyDownloaded(r)
  \/ \E r \in RunIds : AdapterError(r)
  \/ \E r \in RunIds : AdapterClose(r)
  \/ \E r \in RunIds : CloseResolved(r)

SpecHistory == Init /\ [][NextHistory]_vars

\* ------------------------------------------------ the standalone server
\* server/src/server.ts: an express server and a WebSocket server that share
\* one map activeDownloads (urlId -> true) and start yt-dlp processes.  Here
\* activeDownloads is that map, runs are the processes, config is the fixed
\* config.maxConcurrentDownloads; there is no store and no queue.
StandaloneMaxConcurrent == 3

\* the urlIds the clients of the standalone server ask for: one more than
\* NumUrls, so that the limit of three can be reached
ServerUrlIds == 1..(NumUrls + 1)

InitStandalone ==
  /\ config = StandaloneMaxConcurrent
  /\ appSettings \in Limits
  /\ savedSettings = appSettings
  /\ hostPc = "idle"
  /\ activeDownloads = Empty
  /\ downloadsState = [u \in UrlIds |-> "none"]
  /\ downloads = Empty
  /\ runs = [r \in RunIds |-> FreeRun]
  /\ requests = 0
  /\ admitted = [u \in UrlIds |-> FALSE]
  /\ last = Note("init")
  /\ schema = CurrentSchema

StandaloneUnchanged ==
  UNCHANGED <<config, appSettings, hostPc, downloadsState, downloads, admitted,
              schema, savedSettings>>

\* a yt-dlp process of the standalone server
Process(u) == [FreeRun EXCEPT !.urlId = u, !.phase = "running"]

\* a handler's result: the map, the processes and the answer
Result(active, rn, outcome) ==
  [activeDownloads |-> active, runs |-> rn, outcome |-> outcome, ok |-> TRUE]

\* ytDlpWrap.exec(...) inside its try: the process is started, or exec
\* throws and the catch deletes the entry and answers with an error.  The
\* model starts a process only while it has a free process slot.
spawn(active, rn, u, execOk) ==
  IF ~execOk THEN Result(Remove(active, u), rn, "failed to start")
  ELSE IF FreeRuns(rn) = {} THEN [Result(active, rn, "") EXCEPT !.ok = FALSE]
  ELSE Result(active, [rn EXCEPT ![FirstFree(rn)] = Process(u)], "started")

\* POST /api/download: 422 for a urlId of the map; else the urlId is put
\* into the map, and only then the size of the map is compared with the
\* limit (429); else the process is started
apiDownload(active, rn, u, execOk) ==
  IF u \in DOMAIN active
  THEN Result(active, rn, "422")
  ELSE IF Cardinality(DOMAIN Put(active, u, TRUE)) >= config
  THEN Result(Put(active, u, TRUE), rn, "429")
  ELSE spawn(Put(active, u, TRUE), rn, u, execOk)

\* ws 'message' with action 'download': the size of the map is tested
\* first, then the urlId; then the urlId is put into the map and the
\* process is started
wsMessage(active, rn, u, execOk) ==
  IF Cardinality(DOMAIN active) >= config
  THEN Result(active, rn, "too many")
  ELSE IF u \in DOMAIN active
  THEN Result(active, rn, "already")
  ELSE spawn(Put(active, u, TRUE), rn, u, execOk)

\* a handler's result becomes the next state
StandaloneCommit(res, op, u) ==
  /\ res.ok
  /\ activeDownloads' = res.activeDownloads
  /\ runs' = res.runs
  /\ last' = [Note(op) EXCEPT !.urlId = u, !.outcome = res.outcome]
  /\ StandaloneUnchanged

ApiDownload(u) ==
  /\ Request
  /\ \E execOk \in BOOLEAN :
       StandaloneCommit(apiDownload(activeDownloads, runs, u, execOk),
                        "POST /api/download", u)

WsMessage(u) ==
  /\ Request
  /\ \E execOk \in BOOLEAN :
       StandaloneCommit(wsMessage(activeDownloads, runs, u, execOk), "ws download", u)

\* 'error' of a process: the entry of its urlId is deleted; 'close' may or
\* may not follow
ProcessError(r) ==
  /\ UNCHANGED requests
  /\ runs[r].phase = "running"
  /\ \E closes \in BOOLEAN :
       StandaloneCommit(
         Result(Remove(activeDownloads, runs[r].urlId),
                [runs EXCEPT ![r] = IF closes THEN [@ EXCEPT !.phase = "errored"]
                                    ELSE FreeRun], ""),
         "process error", runs[r].urlId)

\* 'close' of a process: the entry of its urlId is deleted
ProcessClose(r) ==
  /\ UNCHANGED requests
  /\ runs[r].phase \in {"running", "errored"}
  /\ StandaloneCommit(
       Result(Remove(activeDownloads, runs[r].urlId),
              [runs EXCEPT ![r] = FreeRun], ""),
       "process close", runs[r].urlId)

NextStandalone ==
  \/ \E u \in ServerUrlIds : ApiDownload(u)
  \/ \E u \in ServerUrlIds : WsMessage(u)
  \/ \E r \in RunIds : ProcessError(r)
  \/ \E r \in RunIds : ProcessClose(r)

SpecStandalone == InitStandalone /\ [][NextStandalone]_vars

\* ------------------------------------------------------------- sanity
TypeOK ==
  /\ config \in 0..MaxLimit
  /\ appSettings \in Limits
  /\ hostPc \in {"down", "idle", "stopping", "starting"}
  /\ DOMAIN activeDownloads \subseteq UrlIds
  /\ \A u \in DOMAIN activeDownloads :
        activeDownloads[u] \in RunIds /\ runs[activeDownloads[u]].urlId = u
  /\ DOMAIN downloads \subseteq UrlIds
  /\ \A u, v \in DOMAIN downloads : u # v => downloads[u].id # downloads[v].id

\* ---------------------------------------------------------------- claims
StartOps == {"POST /download", "start-download"}

ActiveCount == Cardinality(DOMAIN activeDownloads)

HasEvent(evs, t, u) == \E i \in 1..Len(evs) : evs[i].type = t /\ evs[i].urlId = u

\* C1: the number of urlIds in the active-download set never exceeds the
\* configured maxConcurrentDownloads (and the set is empty while the
\* gateway has no configuration).
C1_ActiveSetBounded == ActiveCount <= config

\* a start request was queued because the active set was full
C1_Witness ==
  /\ last.op \in StartOps
  /\ last.outcome = "queued"
  /\ config > 0
  /\ ActiveCount = config

\* C2: while the gateway runs, the number of rows with status 'downloading'
\* is at most the configured maxConcurrentDownloads.
C2_DownloadingRowsBounded ==
  hostPc = "idle" =>
    Cardinality(getDownloadsByStatus(downloads, {"downloading"})) <= config

\* C3: of two start requests for one urlId with no terminal event (and no
\* adapter close) for it between them, the first is admitted and the second
\* is rejected as already downloading.
C3_SecondStartRejected ==
  [][\A u \in UrlIds :
       (admitted[u] /\ last'.op \in StartOps /\ last'.urlId = u /\ requests' # requests)
         => last'.outcome = "already downloading"]_vars

\* C4: a start request for a urlId in the active set leaves the active set,
\* the adapter runs and the stored row of that urlId unchanged.
C4_DuplicateStartIsNoOp ==
  [][\A u \in UrlIds :
       (u \in DOMAIN activeDownloads /\ last'.op \in StartOps /\ last'.urlId = u
          /\ requests' # requests)
         => /\ activeDownloads' = activeDownloads
            /\ runs' = runs
            /\ (u \in DOMAIN downloads => downloads'[u] = downloads[u])]_vars

\* C5: a start request for a urlId whose stored status is 'completed' starts
\* no adapter run, does not add the urlId to the active set and emits a
\* 'completed' event carrying the stored file path.
C5_CompletedShortCircuit ==
  [][\A u \in UrlIds :
       (u \in DOMAIN downloads /\ downloads[u].status = "completed"
          /\ last'.op \in StartOps /\ last'.urlId = u /\ requests' # requests)
         => /\ runs' = runs
            /\ activeDownloads' = activeDownloads
            /\ \E i \in 1..Len(last'.events) :
                 last'.events[i] = Ev("download-completed", u, downloads[u].filePath)]_vars

\* C6: with maxConcurrentDownloads = N and an empty store, after start
\* requests for N+1 distinct urlIds exactly N rows are 'downloading' and
\* exactly one is 'queued'.
C6_FreshStartsDownloading ==
  (/\ hostPc = "idle"
   /\ requests = config + 1
   /\ Cardinality(DOMAIN downloads) = config + 1
   /\ last.op \in StartOps
   /\ last.outcome = "queued")
    => /\ Cardinality(getDownloadsByStatus(downloads, {"downloading"})) = config
       /\ Cardinality(getDownloadsByStatus(downloads, {"queued"})) = 1

\* C7: when the active set is full and a queued row exists, the close of an
\* active download (normal completion, destination known) pops the oldest
\* queued row and admits it in the same step: it is in the active set and
\* its stored status is 'downloading' (unless its own adapter start threw).
C7_CompletionPromotesQueued ==
  [][\A u \in UrlIds :
       (/\ last'.op = "close" /\ last'.urlId = u /\ requests' = requests
        /\ u \in DOMAIN activeDownloads
        /\ runs'[activeDownloads[u]] # runs[activeDownloads[u]]
        /\ runs[activeDownloads[u]].currentFilePath # ""
        /\ downloadsState[u] \notin {"stop", "error"}
        /\ ActiveCount = config
        /\ Queued(downloads) # {})
         => \/ /\ OldestQueued(downloads) \in DOMAIN activeDownloads'
               /\ downloads'[OldestQueued(downloads)].status = "downloading"
            \/ HasEvent(last'.events, "download-failed", OldestQueued(downloads))]_vars

\* C8: the queue never stalls: a queued row and a free slot never coexist
\* in a state in which no adapter run and no host step is outstanding (from
\* such a state the row is popped only if a client happens to send a new
\* request that later terminates).
C8_QueueNeverStalls ==
  ~(/\ hostPc = "idle"
    /\ Queued(downloads) # {}
    /\ ActiveCount < config
    /\ \A r \in RunIds : runs[r].phase = "free")

\* C9: a start request at capacity for a urlId that is neither active nor
\* completed leaves its row in status 'queued', whether the row is created
\* or existed before.
C9_StartAtCapacityQueues ==
  [][\A u \in UrlIds :
       (/\ last'.op \in StartOps /\ last'.urlId = u /\ requests' # requests
        /\ u \notin DOMAIN activeDownloads
        /\ ~(u \in DOMAIN downloads /\ downloads[u].status = "completed")
        /\ ActiveCount >= config)
         => (u \in DOMAIN downloads' /\ downloads'[u].status = "queued")]_vars

\* C10: after crash recovery every row that was unfinished is either in the
\* active set or stored as 'queued'; none is 'pending' or 'downloading'
\* without an adapter run.
C10_RecoveryLosesNoWork ==
  last.op = "boot" =>
    \A u \in getDownloadsByStatus(downloads, {"pending", "downloading"}) :
      u \in DOMAIN activeDownloads

InFlightStatuses == {"pending", "downloading"}

\* C12: every admitted download ends in a persisted terminal status: in the
\* step in which an adapter run of a urlId is over (closed, failed or not
\* started) and no other run of that urlId is live, the row of the urlId
\* is no longer pending or downloading (it is completed, failed or
\* cancelled, or a retry has queued it again).  Nothing acts on the row
\* afterwards, so this is what "eventually persisted" needs.
C12_TerminalStatusPersisted ==
  [][\A r \in RunIds :
       (/\ runs[r].phase # "free" /\ runs'[r].phase = "free"
        /\ hostPc' # "down"
        /\ ~\E q \in RunIds : runs'[q].phase # "free" /\ runs'[q].urlId = runs[r].urlId)
         => /\ runs[r].urlId \in DOMAIN downloads'
            /\ downloads'[runs[r].urlId].status \notin InFlightStatuses]_vars

\* C13: an adapter run emits at most one terminal event (completed, failed
\* or stopped), also on the 'already downloaded' path and when an adapter
\* error is followed by close.
C13_OneTerminalEventPerRun == \A r \in RunIds : runs[r].terminals <= 1

StoppedRunOf(u) ==
  \E r \in RunIds : runs[r].urlId = u /\ runs[r].phase # "free" /\ runs[r].aborted

\* C14: stopDownload of an active urlId leaves its row cancelled and the
\* urlId out of the active set, and while the stopped run is the only run
\* of the urlId no later step that is not a new start or retry request
\* emits 'completed' or 'failed' for it.
C14_StopIsFinal ==
  [][\A u \in UrlIds :
       /\ (/\ last'.op = "stopDownload" /\ last'.urlId = u /\ requests' # requests
           /\ u \in DOMAIN activeDownloads)
            => /\ u \notin DOMAIN activeDownloads'
               /\ u \in DOMAIN downloads' /\ downloads'[u].status = "cancelled"
       /\ (/\ StoppedRunOf(u)
           /\ requests' = requests
           /\ \A r \in RunIds : runs[r].urlId = u => (runs[r].phase = "free" \/ runs[r].aborted)
           /\ u \notin DOMAIN activeDownloads')
            => /\ ~HasEvent(last'.events, "download-completed", u)
               /\ ~HasEvent(last'.events, "download-failed", u)]_vars

\* C15: stopDownload of a urlId that is not in the active set returns false
\* and changes nothing: the active set, the engine status, the adapter
\* runs and the store are unchanged and no event is emitted.
C15_StopInactiveIsNoOp ==
  [][\A u \in UrlIds :
       (/\ last'.op = "stopDownload" /\ last'.urlId = u /\ requests' # requests
        /\ u \notin DOMAIN activeDownloads)
         => /\ last'.ret = FALSE
            /\ last'.events = <<>>
            /\ activeDownloads' = activeDownloads
            /\ downloadsState' = downloadsState
            /\ downloads' = downloads
            /\ runs' = runs]_vars

\* a stop request for a urlId that is only queued
C15_Witness ==
  /\ last.op = "stopDownload"
  /\ last.outcome = "not active"
  /\ last.urlId \in Queued(downloads)
  /\ last.urlId \notin DOMAIN activeDownloads

\* C16: the store holds one row per urlId: no two urlIds share a row id, and
\* no step replaces the row of a urlId by another row (its id stays), so a
\* repeated create for an existing urlId inserts nothing.
C16_OneRowPerUrlId ==
  [][/\ \A u \in DOMAIN downloads :
          u \in DOMAIN downloads' /\ downloads'[u].id = downloads[u].id
     /\ \A u, v \in DOMAIN downloads' :
          u # v => downloads'[u].id # downloads'[v].id
     /\ \A u \in DOMAIN downloads' : downloads'[u].id \in 1..Cardinality(DOMAIN downloads')]_vars

\* a start request at capacity for a urlId whose row exists as 'check':
\* createDownloadRecord has run on an existing urlId
C16_Witness ==
  /\ last.op \in StartOps
  /\ last.outcome = "queued"
  /\ last.urlId \in DOMAIN downloads
  /\ downloads[last.urlId].status = "check"

\* the rows that wait when the queue is advanced in this step: the row of
\* the urlId whose handler runs is not among them
Waiting == Queued(downloads) \ {last'.urlId}

\* C17: the queue is first in, first out by row id: a step that advances
\* the queue while rows wait turns the waiting row with the smallest id,
\* and no other, from 'queued' into a started download.
C17_QueueIsFifo ==
  [][(HasEvent(last'.events, "request-next-download", NoUrl) /\ Waiting # {})
       => \E o \in Waiting :
            /\ \A v \in Waiting : downloads[o].id <= downloads[v].id
            /\ downloads'[o].status # "queued"
            /\ HasEvent(last'.events, "download-started", o)
            /\ \A v \in Waiting \ {o} :
                 /\ downloads'[v].status = "queued"
                 /\ ~HasEvent(last'.events, "download-started", v)]_vars

\* two rows waited, the row created second has the smaller urlId, and the
\* queue was advanced: one row is started, the other still waits
C17_Witness ==
  /\ HasEvent(last.events, "request-next-download", NoUrl)
  /\ \E o, v \in UrlIds :
       /\ o > v
       /\ downloads[o].id < downloads[v].id
       /\ HasEvent(last.events, "download-started", o)
       /\ downloads[v].status = "queued"

TerminalStatuses == {"completed", "failed", "cancelled"}

\* C18: a retry of a row in a terminal status whose urlId is not active
\* re-arms it: progress is 0 and either the download is admitted (active,
\* row pending or downloading, error cleared), or the active set is at
\* capacity and the row is 'queued' with its error cleared, or the start
\* was issued and the adapter failed to start.
C18_RetryRearms ==
  [][\A u \in UrlIds :
       (/\ last'.op = "retry-download" /\ last'.urlId = u /\ requests' # requests
        /\ u \in DOMAIN downloads /\ downloads[u].status \in TerminalStatuses
        /\ u \notin DOMAIN activeDownloads)
         => \/ /\ u \in DOMAIN activeDownloads'
               /\ downloads'[u].status \in InFlightStatuses
               /\ downloads'[u].errorMessage = ""
               /\ downloads'[u].progress = 0
            \/ /\ ActiveCount >= config
               /\ downloads'[u].status = "queued"
               /\ downloads'[u].errorMessage = ""
               /\ downloads'[u].progress = 0
            \/ /\ HasEvent(last'.events, "download-started", u)
               /\ HasEvent(last'.events, "download-failed", u)]_vars

\* C19: a retry of a row whose urlId is in the active set does no harm:
\* afterwards the row is pending, queued or downloading with its error
\* cleared, and the urlId has exactly one adapter run.
C19_RetryOfActiveIsHarmless ==
  [][\A u \in UrlIds :
       (/\ last'.op = "retry-download" /\ last'.urlId = u /\ requests' # requests
        /\ u \in DOMAIN downloads
        /\ u \in DOMAIN activeDownloads)
         => /\ downloads'[u].status \in {"pending", "queued", "downloading"}
            /\ downloads'[u].errorMessage = ""
            /\ Cardinality({r \in RunIds : runs'[r].phase # "free" /\ runs'[r].urlId = u}) = 1]_vars

ClientIds == {last'.ids[i] : i \in 1..Len(last'.ids)}

\* C20: a sync-history message with client ids C on a store with ids S
\* leaves every id of C \ S in the store as a 'check' row, leaves the rows
\* of S as they are, and replies exactly S \ C.
C20_SyncComputesBothDifferences ==
  [][last'.op = "sync-history"
       => /\ \A u \in ClientIds \ DOMAIN downloads :
               u \in DOMAIN downloads' /\ downloads'[u].status = "check"
          /\ \A u \in DOMAIN downloads : downloads'[u] = downloads[u]
          /\ DOMAIN downloads' = DOMAIN downloads \cup ClientIds
          /\ last'.reply = DOMAIN downloads \ ClientIds
          /\ last'.reply \cap ClientIds = {}]_vars

\* a sync that both inserted a 'check' row and reported a missing id
C20_Witness ==
  /\ last.op = "sync-history"
  /\ last.reply # {}
  /\ \E i \in 1..Len(last.ids) :
       /\ downloads[last.ids[i]].status = "check"
       /\ downloads[last.ids[i]].id = Cardinality(DOMAIN downloads)

\* C21: sync-history is idempotent: a second sync-history with the same set
\* of client ids, directly after the first, leaves every row of the store
\* as it is, adds no row, and replies the same set of missing ids.
C21_SyncIsIdempotent ==
  [][(last'.op = "sync-history" /\ last'.repeat /\ requests' # requests)
       => /\ downloads' = downloads
          /\ Cardinality(DOMAIN downloads') = Cardinality(DOMAIN downloads)
          /\ last'.reply = last.reply]_vars

\* the second of two syncs with the same ids, of which the first inserted a
\* row and reported a missing id
C21_Witness ==
  /\ last.op = "sync-history"
  /\ last.repeat
  /\ last.reply # {}
  /\ \E i \in 1..Len(last.ids) : downloads[last.ids[i]].status = "check"

DomainEvents ==
  {"download-started", "download-progress", "download-completed",
   "download-failed", "download-stopped", "download-queued"}

\* the message m of the push channel carries the event e: it has the tag
\* of the event, or it is the 'download-finished' message of that outcome
Carries(m, e) ==
  /\ m.urlId = e.urlId
  /\ \/ m.type = e.type
     \/ m.type = "download-finished" /\ e.type = "download-completed" /\ m.status = "completed"
     \/ m.type = "download-finished" /\ e.type = "download-failed" /\ m.status = "failed"

\* C22: every domain event (started, progress, completed, failed, stopped,
\* queued) emitted while the WebSocket server exists is sent on the push
\* channel to the clients open at that moment.
C22_EveryEventIsPushed ==
  hostPc \in {"idle", "stopping"} =>
    \A i \in 1..Len(last.events) :
      last.events[i].type \in DomainEvents
        => \E j \in 1..Len(last.pushed) : Carries(last.pushed[j], last.events[i])

\* C23: the events of one adapter run are 'started', then progress events,
\* then at most one of completed, failed and stopped, and nothing after it:
\* no second terminal event and no progress event after the terminal one.
\* ('started' is emitted in the step that creates the run, before exec.)
C23_RunEventOrder ==
  \A r \in RunIds : ~runs[r].late /\ runs[r].terminals < 2

\* C24: the response of POST /download tells the admission outcome: two
\* requests with different outcomes (started, queued, already downloading,
\* completed) get different responses.
C24_ResponseTellsOutcome ==
  [][(/\ last.op = "POST /download" /\ last'.op = "POST /download"
      /\ requests' # requests
      /\ last.outcome # last'.outcome)
       => last.response # last'.response]_vars

\* the versions above v, in ascending order
Above(v) == [i \in 1..(TopVersion - v) |-> v + i]

\* C25: a start of the store from recorded version v applies exactly the
\* migrations with a version above v, in ascending order, and then records
\* the highest version (so a start from the highest version applies none);
\* when the environment fails one of those migrations, none of the batch
\* is applied (one transaction): the versions recorded stay as they were
\* and the start is aborted.
C25_MigrationsAppliedOnce ==
  [][(schema.status = "closed" /\ schema'.status # "closed")
       => LET v == currentVersion(schema) IN
          IF schema'.fault > v
          THEN /\ schema'.status = "failed"
               /\ schema'.versions = schema.versions
               /\ schema'.applied = <<>>
               /\ downloads' = downloads
          ELSE /\ schema'.status = "open"
               /\ schema'.applied = Above(v)
               /\ schema'.versions = schema.versions \cup {Above(v)[i] : i \in 1..Len(Above(v))}
               /\ currentVersion(schema') = TopVersion]_vars

\* a file left at version 1 has been brought to the newest version by
\* migration 2 alone, and rows have been created since
C25_Witness ==
  /\ schema.status = "open"
  /\ schema.from = 1
  /\ schema.applied = <<2>>
  /\ schema.versions = {1, 2}
  /\ downloads # Empty

\* C26: the id of a record never changes while the record exists: not when
\* other records are deleted and not when the store is initialized at the
\* next start of the process.
C26_IdIsStable ==
  [][\A u \in DOMAIN downloads \cap DOMAIN downloads' :
       downloads'[u].id = downloads[u].id]_vars

\* the value is outside the range SettingsManager accepts
OutOfRange(n) == n < MinConcurrent \/ n > MaxConcurrent

\* C27: a save-settings request with invalid settings changes nothing: the
\* settings row, the cached settings and the configuration of the gateway
\* stay as they are, the gateway is not restarted and its downloads go on.
C27_InvalidSettingsRejected ==
  [][(last'.op = "save-settings" /\ requests' # requests /\ OutOfRange(last'.input))
       => /\ savedSettings' = savedSettings
          /\ appSettings' = appSettings
          /\ config' = config
          /\ hostPc' = hostPc
          /\ activeDownloads' = activeDownloads
          /\ downloadsState' = downloadsState
          /\ runs' = runs]_vars

\* invalid settings were sent while a download was running
C27_Witness ==
  /\ last.op = "save-settings"
  /\ OutOfRange(last.input)
  /\ hostPc = "idle"
  /\ config = appSettings
  /\ activeDownloads # Empty

LateEvents == {"download-progress", "download-completed", "download-stopped"}

\* the step emits a progress, completed or stopped event for u and nothing
\* that re-arms the row of u (no start, failure, queueing or retry)
OnlyLateEvents(u) ==
  /\ \E t \in LateEvents : HasEvent(last'.events, t, u)
  /\ \A t \in DomainEvents \ LateEvents : ~HasEvent(last'.events, t, u)
  /\ last'.op \notin {"retry-download", "boot"}

\* C28: a row in a terminal status (completed, failed, cancelled) is left
\* unchanged by late progress, completed and stopped events for its urlId:
\* updateProgress, completeDownload and cancelDownload write only to rows
\* that are pending or downloading.
C28_TerminalRowIgnoresLateEvents ==
  [][\A u \in DOMAIN downloads :
       (downloads[u].status \in TerminalStatuses /\ OnlyLateEvents(u))
         => downloads'[u] = downloads[u]]_vars

\* a progress event arrived for a cancelled row and its progress was not
\* written
C28_Witness ==
  /\ last.op = "progress"
  /\ HasEvent(last.events, "download-progress", last.urlId)
  /\ last.urlId \in DOMAIN downloads
  /\ downloads[last.urlId].status = "cancelled"
  /\ downloads[last.urlId].progress = 0

\* the close handler of run r ends in this step on the completion path:
\* the status of its urlId is neither 'stop' nor 'error' and the file name
\* is known or has just been looked up
ClosesNormally(r) ==
  /\ last'.op \in {"close", "close resolved"}
  /\ last'.urlId = runs[r].urlId
  /\ requests' = requests
  /\ runs'[r] # runs[r]
  /\ \/ runs[r].phase = "resolve"
     \/ /\ runs[r].phase \in {"running", "errored"}
        /\ runs[r].currentFilePath # ""
        /\ downloadsState[runs[r].urlId] \notin {"stop", "error"}

\* the active downloads that remain when the close handler of run r reaches
\* its end: the handler deletes its urlId first, before any lookup
ActiveAfterClose(r) ==
  IF runs[r].phase = "resolve" THEN DOMAIN activeDownloads
  ELSE DOMAIN activeDownloads \ {runs[r].urlId}

\* C29: a close on the completion path finalizes the download whether or
\* not the file can be found: a completed or failed event is emitted for
\* the urlId, its row is no longer pending or downloading (unless the
\* queue starts the same urlId again at once), and the queue is advanced
\* when a slot is free.
C29_CloseAlwaysFinalizes ==
  [][\A r \in RunIds :
       ClosesNormally(r)
         => /\ \/ HasEvent(last'.events, "download-completed", runs[r].urlId)
               \/ HasEvent(last'.events, "download-failed", runs[r].urlId)
            /\ runs[r].urlId \in DOMAIN downloads'
            /\ \/ downloads'[runs[r].urlId].status \notin InFlightStatuses
               \/ HasEvent(last'.events, "download-started", runs[r].urlId)
            /\ (Cardinality(ActiveAfterClose(r)) < config)
                 => HasEvent(last'.events, "request-next-download", NoUrl)]_vars

\* an adapter run ends in this step: no handler of it is left to run
RunEnds(r) ==
  /\ runs[r].phase # "free"
  /\ runs'[r].phase = "free"
  /\ last'.op # "exit"

\* C30: the queue is advanced after every terminal outcome: a step in
\* which an adapter run ends (completed, failed, closed after a stop, or
\* not started because exec threw) and which leaves a slot free has asked
\* for the next queued download.
C30_QueueAdvancedAfterEveryOutcome ==
  [][((\E r \in RunIds : RunEnds(r)) /\ Cardinality(DOMAIN activeDownloads') < config')
       => HasEvent(last'.events, "request-next-download", NoUrl)]_vars

\* the row of u is pending or downloading and u is not in the active set
StaleRow(u) ==
  /\ u \in DOMAIN downloads
  /\ downloads[u].status \in InFlightStatuses
  /\ u \notin DOMAIN activeDownloads

\* C31: admission is gated by the active set only: a start request for a
\* urlId whose row is pending or downloading while the urlId is not in the
\* active set is never rejected as already downloading (no failed event);
\* it is queued when the active set is full and admitted otherwise, as a
\* request for a urlId without a row is.
C31_StaleRowDoesNotGate ==
  [][\A u \in UrlIds :
       (/\ last'.op \in StartOps /\ last'.urlId = u /\ requests' # requests
        /\ StaleRow(u))
         => /\ last'.outcome = (IF ActiveCount >= config THEN "queued" ELSE "started")
            /\ ~HasEvent(last'.events, "download-failed", u)
            /\ (ActiveCount < config
                  => u \in DOMAIN activeDownloads' /\ downloads'[u].status = "downloading")]_vars

\* a start request at capacity was queued although the row of its urlId was
\* in flight already (a new row would be 'queued')
C31_Witness ==
  /\ last.op \in StartOps
  /\ last.outcome = "queued"
  /\ last.urlId \in DOMAIN downloads
  /\ downloads[last.urlId].status \in InFlightStatuses
  /\ last.urlId \notin DOMAIN activeDownloads

\* the step is a start or retry request for u
StartOrRetryOf(u) ==
  /\ last'.op \in StartOps \cup {"retry-download"}
  /\ last'.urlId = u
  /\ requests' # requests

\* C32: a row with status 'check' takes no part in the concurrency
\* accounting: its urlId is not in the active set (which is what is counted
\* against maxConcurrentDownloads), no step other than a start or retry
\* request for its urlId changes the row, starts it or queues it (so the
\* queue pop never selects it), and only a deletion removes it.
C32_CheckRowsNotAccounted ==
  [][\A u \in UrlIds :
       /\ (u \in DOMAIN downloads' /\ downloads'[u].status = "check")
            => u \notin DOMAIN activeDownloads'
       /\ (/\ u \in DOMAIN downloads /\ downloads[u].status = "check"
           /\ ~StartOrRetryOf(u))
            => /\ u \in DOMAIN downloads'
                    => downloads'[u].status = "check"
               /\ u \notin DOMAIN downloads'
                    => last'.op \in {"delete-downloads", "clear-download-history"}
               /\ ~HasEvent(last'.events, "download-started", u)
               /\ ~HasEvent(last'.events, "download-queued", u)]_vars

\* C33: every row whose status is pending, downloading or queued has a null
\* endTime (endTime is set only when the row enters completed, failed or
\* cancelled).
C33_EndTimeNullWhileActive ==
  \A u \in DOMAIN downloads :
    downloads[u].status \in UnfinishedStatuses => downloads[u].endTime = "null"

\* the step is the close handler (or its continuation after the filename
\* lookup) of a run of u other than the run q that holds the active entry
EarlierRunCloses(u, q) ==
  /\ last'.op \in {"close", "close resolved"}
  /\ last'.urlId = u
  /\ requests' = requests
  /\ u \in DOMAIN activeDownloads
  /\ activeDownloads[u] = q
  /\ runs'[q] = runs[q]

\* C34: the close of an earlier adapter run of a urlId does not affect the
\* later run of the same urlId: the later run keeps its entry in the active
\* set and no completed event is emitted for the urlId.
C34_LateCloseSparesLaterRun ==
  [][\A u \in UrlIds : \A q \in RunIds :
       EarlierRunCloses(u, q)
         => /\ u \in DOMAIN activeDownloads'
            /\ activeDownloads'[u] = q
            /\ ~HasEvent(last'.events, "download-completed", u)]_vars

\* the adapter of run r has been started, has not failed or closed, was not
\* stopped and has emitted no terminal event
LiveRun(r) ==
  /\ runs[r].phase = "running"
  /\ ~runs[r].aborted
  /\ runs[r].terminals = 0

\* C35: every adapter run that was started and has neither closed nor been
\* stopped holds the entry of its urlId in the active set, also across a
\* restart of the gateway, so the number of such runs is within the
\* maxConcurrentDownloads of the settings.
C35_RunningMeansActive ==
  /\ \A r \in RunIds :
       LiveRun(r) => /\ runs[r].urlId \in DOMAIN activeDownloads
                     /\ activeDownloads[runs[r].urlId] = r
  /\ Cardinality({r \in RunIds : LiveRun(r)}) <= appSettings

\* C36: a fresh start request does not overtake waiting work: while a row
\* is 'queued', a start request for another urlId is not admitted into a
\* free slot (the slot is for the oldest queued row).
C36_NoOvertaking ==
  [][\A u \in UrlIds :
       (/\ last'.op \in StartOps /\ last'.urlId = u /\ requests' # requests
        /\ Queued(downloads) \ {u} # {})
         => last'.outcome # "started"]_vars

\* the step is an explicit retry of u or a deletion of rows
RetryOrDeletion(u) ==
  \/ last'.op = "retry-download" /\ last'.urlId = u /\ requests' # requests
  \/ last'.op \in {"delete-downloads", "clear-download-history"}

\* C37: a row whose status is 'completed' keeps that status under every
\* start request and every adapter or engine event for its urlId: only an
\* explicit retry of the urlId changes it and only a deletion removes it.
C37_CompletedIsKept ==
  [][\A u \in UrlIds :
       (/\ u \in DOMAIN downloads /\ downloads[u].status = "completed"
        /\ ~RetryOrDeletion(u))
         => /\ u \in DOMAIN downloads'
            /\ downloads'[u].status = "completed"]_vars

\* the request of this step was rejected by POST /api/download
Rejected == last'.op = "POST /api/download" /\ last'.outcome \in {"422", "429"}

\* C38: in the standalone server every urlId of the activeDownloads map has
\* a process that was started and has neither closed nor failed, and a
\* request rejected by POST /api/download (422 or 429) leaves the map as
\* it was.
C38_MapHoldsRunningProcesses ==
  [][/\ \A u \in DOMAIN activeDownloads' :
          \E r \in RunIds : runs'[r].urlId = u /\ runs'[r].phase = "running"
     /\ Rejected => activeDownloads' = activeDownloads]_vars

====
